---- MODULE Spec2Model ----
(***************************************************************************)
(* TCPROS service client (rosrust/src/tcpros/client.rs) and the            *)
(* length-prefixed little-endian encoder (src/tcpros/encoder.rs).          *)
(*                                                                         *)
(* Two specifications share this module:                                   *)
(*   Spec     the service client: one synchronous call and one             *)
(*            asynchronous call of the same Client against the same peer   *)
(*   EncSpec  the encoder: values emitted into an Encoder, then write_to   *)
(***************************************************************************)
EXTENDS Integers, Sequences, FiniteSets, TLC

VARIABLES
    encoder,    \* the Encoder: [output: chunks, fills: log of backfills]
    history,    \* one record per v.encode(&mut encoder) performed
    sink,       \* what write_to has written to its byte sink so far
    info,       \* ClientInfo {caller_id, uri, service} of the Client
    svc,        \* the ServicePair: md5sum, msg_type, the Response type
    args,       \* the request value handed to req and to req_async
    net,        \* how the network and the peer behave during a call
    call,       \* the request_body activation of req ("sync") and of req_async ("async")
    main,       \* the thread that owns the Client and calls req / req_async / read / callback
    handle,     \* the ClientResponse returned by req_async
    readResult, \* what ClientResponse::read returned to the main thread
    cb          \* the thread ClientResponse::callback spawns, and the callback's invocations

encVars == <<encoder, history, sink>>
clientVars == <<info, svc, args, net, call, main, handle, readResult, cb>>

(***************************************************************************)
(* Bounds                                                                  *)
(***************************************************************************)
MaxLen == 2         \* elements of a generated tuple / struct / sequence
MaxEmits == 2       \* values encoded into one Encoder

(***************************************************************************)
(* Bytes                                                                   *)
(***************************************************************************)
RECURSIVE LEBytes(_, _)
\* byteorder's write_uN::<LittleEndian> / write_iN: the w low-order bytes of v,
\* least significant first (floor division gives two's complement for v < 0)
LEBytes(v, w) == IF w = 0 THEN <<>> ELSE <<v % 256>> \o LEBytes(v \div 256, w - 1)

RECURSIVE LEValue(_)
\* the unsigned number a little-endian byte string denotes
LEValue(bs) == IF bs = <<>> THEN 0 ELSE bs[1] + 256 * LEValue(Tail(bs))

RECURSIVE Flatten(_)
Flatten(chunks) == IF chunks = <<>> THEN <<>> ELSE chunks[1] \o Flatten(Tail(chunks))

RECURSIVE SumLen(_)
SumLen(chunks) == IF chunks = <<>> THEN 0 ELSE Len(chunks[1]) + SumLen(Tail(chunks))

(***************************************************************************)
(* Values handed to the encoder.  One record shape for every value:        *)
(*   k  kind, v  integer payload (of a tuple or struct: the len its        *)
(*   Encodable impl passes to emit_tuple / emit_struct), s  string bytes,  *)
(*   e  elements / fields, n  struct name followed by the field names      *)
(***************************************************************************)
Val(k, v, s, e, n) == [k |-> k, v |-> v, s |-> s, e |-> e, n |-> n]
IntV(k, v) == Val(k, v, <<>>, <<>>, <<>>)
BoolV(b) == Val("bool", IF b THEN 1 ELSE 0, <<>>, <<>>, <<>>)
StrV(s) == Val("str", 0, s, <<>>, <<>>)
TupleV(es) == Val("tuple", Len(es), <<>>, es, <<>>)
StructV(n, es) == Val("struct", Len(es), <<>>, es, n)
SeqV(es) == Val("seq", 0, <<>>, es, <<>>)
\* shapes the encoder refuses
BadV(k) == Val(k, 0, <<>>, <<>>, <<>>)

IntKinds == {"u8", "i8", "u16", "i16", "u32", "i32", "u64", "i64"}
UnsupportedKinds == {"nil", "usize", "isize", "char", "option", "map", "enum"}
CompositeKinds == {"tuple", "struct", "seq"}
IsComposite(v) == v.k \in CompositeKinds

Width(k) ==
    CASE k \in {"u8", "i8", "bool"} -> 1
      [] k \in {"u16", "i16"} -> 2
      [] k \in {"u32", "i32"} -> 4
      [] k \in {"u64", "i64"} -> 8

(***************************************************************************)
(* Encoder (src/tcpros/encoder.rs)                                         *)
(***************************************************************************)
Res(enc, err) == [enc |-> enc, err |-> err]

new == [output |-> <<>>, fills |-> <<>>]

\* len counting the chunks
len_counts_chunks(enc) == Len(enc.output)

len(enc) == SumLen(enc.output)

write_to(enc, out) == out \o Flatten(enc.output)

write_variable(enc, buffer) ==
    Res([enc EXCEPT !.output = Append(@, buffer)], "Ok")

\* a usize is held as its bytes, least significant first: counts of 2^32 and
\* more are values of the type
UsizeBytes == 8     \* usize and u64 on a 64-bit target

\* the usize (u64) a count of the model is
usize(n) == LEBytes(n, UsizeBytes)

\* v as u32: the low 32 bits are kept
as_u32(v) == SubSeq(v, 1, 4)

\* v: usize.  write_u32::<LittleEndian> writes the four bytes of the u32, least
\* significant first
write_size(enc, v) == write_variable(enc, as_u32(v))

\* write_size_in_middle reaching for the chunk after the one asked for
write_size_in_middle_next_chunk(enc, position, v) ==
    IF position + 1 >= Len(enc.output)
    THEN Res(enc, "panic")
    ELSE Res([enc EXCEPT
                !.output[position + 2] = @ \o as_u32(v),
                !.fills = Append(@, [position |-> position + 1,
                                     before |-> Len(enc.output[position + 2]),
                                     chunks |-> Len(enc.output),
                                     was |-> enc.output,
                                     size |-> v])],
             "Ok")

\* position is 0-based, as in the source; get_mut(position).unwrap() panics when
\* there is no such chunk.  Vec<u8>'s Write appends to the chunk.  The log entry
\* keeps the chunk vector as it was when the call was made.
write_size_in_middle(enc, position, v) ==
    IF position < 0 \/ position >= Len(enc.output)
    THEN Res(enc, "panic")
    ELSE Res([enc EXCEPT
                !.output[position + 1] = @ \o as_u32(v),
                !.fills = Append(@, [position |-> position,
                                     before |-> Len(enc.output[position + 1]),
                                     chunks |-> Len(enc.output),
                                     was |-> enc.output,
                                     size |-> v])],
             "Ok")

emit_unsupported(enc) == Res(enc, "UnsupportedData")

\* emit_int writing the most significant byte first
emit_int_big_endian(enc, k, v) ==
    write_variable(enc, [i \in 1..Width(k) |-> LEBytes(v, Width(k))[Width(k) + 1 - i]])

emit_int(enc, k, v) == write_variable(enc, LEBytes(v, Width(k)))

emit_bool(enc, b) == write_variable(enc, <<IF b THEN 1 ELSE 0>>)

emit_str(enc, data) ==
    LET r == write_size(enc, usize(Len(data)))
    IN  IF r.err # "Ok" THEN r ELSE write_variable(r.enc, data)

RECURSIVE Encode(_, _), EncodeAll(_, _)

\* emit_tuple with the backfilled size counting chunks instead of bytes
emit_tuple_chunk_count(enc, n, f) ==
    LET pushed == [enc EXCEPT !.output = Append(@, <<>>)]
        position == Len(pushed.output)
        r == EncodeAll(pushed, f)
        length == usize(Len(r.enc.output) - position)
    IN  IF r.err # "Ok" THEN r
        ELSE write_size_in_middle(r.enc, position - 1, length)

\* emit_tuple giving back the encoder as it found it when the closure fails
emit_tuple_rolls_back(enc, n, f) ==
    LET pushed == [enc EXCEPT !.output = Append(@, <<>>)]
        position == Len(pushed.output)
        r == EncodeAll(pushed, f)
        length == usize(SumLen(SubSeq(r.enc.output, position + 1, Len(r.enc.output))))
    IN  IF r.err # "Ok" THEN Res(enc, r.err)
        ELSE write_size_in_middle(r.enc, position - 1, length)

\* f: the closure the Encodable impl passes, here the fields it encodes in order
emit_tuple(enc, n, f) ==
    LET pushed == [enc EXCEPT !.output = Append(@, <<>>)]
        position == Len(pushed.output)
        r == EncodeAll(pushed, f)
        length == usize(SumLen(SubSeq(r.enc.output, position + 1, Len(r.enc.output))))
    IN  IF r.err # "Ok" THEN r
        ELSE write_size_in_middle(r.enc, position - 1, length)

\* emit_struct writing the field count it was given ahead of the fields
emit_struct_counts_fields(enc, name, n, f) ==
    LET counted == write_size(enc, n)
    IN  IF counted.err # "Ok" THEN counted ELSE emit_tuple(counted.enc, n, f)

emit_struct(enc, name, n, f) == emit_tuple(enc, n, f)

\* emit_seq with the element count left out of the backfilled byte size
emit_seq_size_without_count(enc, n, f) ==
    LET pushed == [enc EXCEPT !.output = Append(@, <<>>)]
        position == Len(pushed.output)
        counted == write_size(pushed, n)
        r == IF counted.err # "Ok" THEN counted ELSE EncodeAll(counted.enc, f)
        length == usize(SumLen(SubSeq(r.enc.output, position + 2, Len(r.enc.output))))
    IN  IF r.err # "Ok" THEN r
        ELSE write_size_in_middle(r.enc, position - 1, length)

\* emit_seq going on to the backfill whatever the closure returned
emit_seq_drops_error(enc, n, f) ==
    LET pushed == [enc EXCEPT !.output = Append(@, <<>>)]
        position == Len(pushed.output)
        counted == write_size(pushed, n)
        r == IF counted.err # "Ok" THEN counted ELSE EncodeAll(counted.enc, f)
        length == usize(SumLen(SubSeq(r.enc.output, position + 1, Len(r.enc.output))))
    IN  write_size_in_middle(r.enc, position - 1, length)

emit_seq(enc, n, f) ==
    LET pushed == [enc EXCEPT !.output = Append(@, <<>>)]
        position == Len(pushed.output)
        counted == write_size(pushed, n)
        r == IF counted.err # "Ok" THEN counted ELSE EncodeAll(counted.enc, f)
        length == usize(SumLen(SubSeq(r.enc.output, position + 1, Len(r.enc.output))))
    IN  IF r.err # "Ok" THEN r
        ELSE write_size_in_middle(r.enc, position - 1, length)

\* emit_tuple_arg / emit_struct_field / emit_seq_elt: f(self)
emit_elt(enc, v) == Encode(enc, v)

\* the body of the closure: each element in order, returning at the first error
EncodeAll(enc, f) ==
    IF f = <<>> THEN Res(enc, "Ok")
    ELSE LET r == emit_elt(enc, f[1])
         IN  IF r.err # "Ok" THEN r ELSE EncodeAll(r.enc, Tail(f))

\* v.encode(&mut encoder): the emit_* call each value shape makes
Encode(enc, v) ==
    CASE v.k \in IntKinds -> emit_int(enc, v.k, v.v)
      [] v.k = "bool" -> emit_bool(enc, v.v = 1)
      [] v.k = "str" -> emit_str(enc, v.s)
      [] v.k = "tuple" -> emit_tuple(enc, usize(v.v), v.e)
      [] v.k = "struct" -> emit_struct(enc, v.n, usize(v.v), v.e)
      [] v.k = "seq" -> emit_seq(enc, usize(Len(v.e)), v.e)
      [] OTHER -> emit_unsupported(enc)

(***************************************************************************)
(* The values the encoder is driven with                                   *)
(***************************************************************************)
SeqsUpTo(S, n) == UNION {[1..m -> S] : m \in 0..n}

\* a sequence is homogeneous: every element has the kind of the first
Homogeneous(es) == \A i \in 1..Len(es) : es[i].k = es[1].k

FieldNames == <<"a", "b", "c">>
NamesFor(es) == <<"S">> \o SubSeq(FieldNames, 1, Len(es))

Comp(S, n) ==
    {TupleV(es) : es \in SeqsUpTo(S, n)}
    \cup {StructV(NamesFor(es), es) : es \in SeqsUpTo(S, n)}
    \cup {SeqV(es) : es \in {x \in SeqsUpTo(S, n) : Homogeneous(x)}}

\* the leaves of tests::writes_u8 .. writes_string that fit a 32-bit integer
TestLeaves ==
    {IntV("u8", 150), IntV("u16", 41524), IntV("u32", 19088743),
     IntV("u64", 305419896), IntV("i8", -100), IntV("i16", -30000),
     IntV("i32", -2000000000), IntV("i64", -2000000000),
     BoolV(TRUE), BoolV(FALSE), StrV(<<>>),
     StrV(<<72, 101, 108, 108, 111>>)}

\* the least and the greatest value of each integer type, as far as a 32-bit
\* integer holds them, and values around zero
EdgeLeaves ==
    {IntV("u8", 0), IntV("u8", 255), IntV("i8", -128), IntV("i8", 127), IntV("i8", -1),
     IntV("u16", 0), IntV("u16", 65535), IntV("i16", -32768), IntV("i16", 32767),
     IntV("u32", 0), IntV("u32", 2147483647), IntV("i32", -2147483647), IntV("i32", -1),
     IntV("i32", 2147483647), IntV("u64", 2147483647), IntV("i64", -1),
     IntV("i64", -2147483647), IntV("i64", 256)}

BadLeaves == {BadV(k) : k \in UnsupportedKinds}

ElemLeaves == {IntV("i16", 2050), BoolV(TRUE), BoolV(FALSE), StrV(<<65, 66, 67>>),
               BadV("usize")}
InnerLeaves == {BoolV(TRUE), BadV("nil")}

\* every unsupported shape as an element of a tuple, of a struct, of a sequence
BadInside ==
    UNION {{TupleV(<<BoolV(TRUE), BadV(k)>>),
            StructV(<<"S", "a", "b">>, <<BadV(k), StrV(<<65>>)>>),
            SeqV(<<BadV(k), BadV(k)>>)} : k \in UnsupportedKinds}

Flat == Comp(ElemLeaves, MaxLen)
Nested == Comp(Comp(InnerLeaves, 1) \cup {IntV("u8", 7)}, MaxLen)
Deep == Comp(Comp(Comp(InnerLeaves, 1), 1), 1)

\* tests::writes_array
TestArray == SeqV(<<IntV("i16", 7), IntV("i16", 1025), IntV("i16", 33), IntV("i16", 57)>>)

\* tests::writes_tuple
TestTuple ==
    TupleV(<<IntV("i16", 2050), BoolV(TRUE), IntV("u8", 7),
             StrV(<<65, 66, 67, 48, 49, 50>>),
             SeqV(<<BoolV(TRUE), BoolV(FALSE), BoolV(FALSE), BoolV(TRUE)>>)>>)

\* tests::writes_simple_struct
TestStructOne ==
    StructV(<<"TestStructOne", "a", "b", "c", "d", "e">>, TestTuple.e)

\* Encodable impls written by hand, passing a len that is not the number of
\* fields they emit
Miscounted ==
    {Val("struct", 7, <<>>, <<IntV("u8", 7), BoolV(TRUE)>>, <<"Odd", "x", "y">>),
     Val("struct", 0, <<>>, <<StrV(<<65>>)>>, <<"Odd", "x">>),
     Val("tuple", 3, <<>>, <<IntV("u8", 7), BoolV(TRUE)>>, <<>>),
     Val("tuple", 1, <<>>, <<Val("struct", 2, <<>>, <<BoolV(FALSE)>>, <<"In", "x">>)>>, <<>>)}

TestStructPart(a, b) == StructV(<<"TestStructPart", "a", "b">>, <<StrV(a), BoolV(b)>>)

\* tests::writes_complex_struct
TestStructBig ==
    StructV(<<"TestStructBig", "a", "b">>,
            <<SeqV(<<TestStructPart(<<65, 66, 67>>, TRUE),
                     TestStructPart(<<49, 33, 33, 33, 33>>, TRUE),
                     TestStructPart(<<50, 51, 52, 98>>, FALSE)>>),
              StrV(<<69, 69, 101>>)>>)

Values == TestLeaves \cup EdgeLeaves \cup BadLeaves \cup BadInside \cup Flat \cup Nested \cup Deep
          \cup {TestArray, TestTuple, TestStructOne, TestStructBig} \cup Miscounted

\* what is encoded into an encoder that already holds output
LaterValues == {IntV("u16", 41524), StrV(<<65>>), BadV("char"),
                TupleV(<<BoolV(TRUE)>>), SeqV(<<>>),
                StructV(<<"P", "a">>, <<IntV("i16", 2050)>>)}


(***************************************************************************)
(* Byte strings of the client's wire                                       *)
(***************************************************************************)
Callerid == <<99, 97, 108, 108, 101, 114, 105, 100>>     \* "callerid"
Md5sum == <<109, 100, 53, 115, 117, 109>>                \* "md5sum"
EqualsSign == 61                                         \* '='
Srv == <<115, 114, 118>>                                 \* "srv"
BadArg == <<98, 97, 100, 32, 97, 114, 103>>              \* "bad arg"

Prefixed(bs) == LEBytes(Len(bs), 4) \o bs

\* read_exact on the stream: n bytes from (0-based) position pos, or a short
\* read that consumes what is left
ReadExact(peer, pos, n) ==
    IF pos + n <= Len(peer)
    THEN [ok |-> TRUE, bytes |-> SubSeq(peer, pos + 1, pos + n), pos |-> pos + n]
    ELSE [ok |-> FALSE, bytes |-> <<>>, pos |-> Len(peer)]

\* String::from_utf8 over the byte alphabet of the model: ASCII bytes, and 255,
\* which no UTF-8 string contains
Utf8(bs) == \A i \in 1..Len(bs) : bs[i] < 128

(***************************************************************************)
(* Messages (RosMsg): a message of no field, of one u8 field, of one       *)
(* string field                                                            *)
(***************************************************************************)
Msg(ty, b) == [ty |-> ty, b |-> b]
MsgTypes == {"Empty", "U8", "Str"}

EncodeMsg(m) ==
    CASE m.ty = "Empty" -> <<>>
      [] m.ty = "U8" -> LEBytes(m.b[1], 1)
      [] m.ty = "Str" -> Prefixed(m.b)

DecodeStr(peer, pos) ==
    LET l == ReadExact(peer, pos, 4)
        d == ReadExact(peer, l.pos, LEValue(l.bytes))
    IN  IF ~l.ok THEN [ok |-> FALSE, err |-> "EndOfBuffer", val |-> <<>>, pos |-> l.pos]
        ELSE IF ~d.ok THEN [ok |-> FALSE, err |-> "EndOfBuffer", val |-> <<>>, pos |-> d.pos]
        ELSE IF ~Utf8(d.bytes)
             THEN [ok |-> FALSE, err |-> "InvalidString", val |-> <<>>, pos |-> d.pos]
        ELSE [ok |-> TRUE, err |-> "", val |-> d.bytes, pos |-> d.pos]

DecodeMsg(ty, peer, pos) ==
    CASE ty = "Empty" -> [ok |-> TRUE, err |-> "", val |-> <<>>, pos |-> pos]
      [] ty = "U8" ->
            LET r == ReadExact(peer, pos, 1)
            IN  [ok |-> r.ok, err |-> IF r.ok THEN "" ELSE "EndOfBuffer",
                 val |-> r.bytes, pos |-> r.pos]
      [] ty = "Str" -> DecodeStr(peer, pos)

(***************************************************************************)
(* Header map codec (header::encode / header::decode)                      *)
(***************************************************************************)
HeaderEntry(k, v) == k \o <<EqualsSign>> \o v

RECURSIVE ConcatPrefixed(_)
ConcatPrefixed(entries) ==
    IF entries = <<>> THEN <<>>
    ELSE Prefixed(entries[1]) \o ConcatPrefixed(Tail(entries))

HeaderBytes(entries) == Prefixed(ConcatPrefixed(entries))

\* position of the first '=' of an entry, 0 when it has none
FirstEquals(entry) ==
    IF \E i \in 1..Len(entry) : entry[i] = EqualsSign
    THEN CHOOSE i \in 1..Len(entry) :
            /\ entry[i] = EqualsSign
            /\ \A j \in 1..(i - 1) : entry[j] # EqualsSign
    ELSE 0

RECURSIVE DecodeEntries(_, _)
\* the entries of a header payload, folded into a map (a later key replaces an
\* earlier one); fields is a set of <<key, value>> pairs with distinct keys
DecodeEntries(payload, fields) ==
    IF payload = <<>> THEN [ok |-> TRUE, fields |-> fields]
    ELSE LET l == ReadExact(payload, 0, 4)
             d == ReadExact(payload, l.pos, LEValue(l.bytes))
             eq == FirstEquals(d.bytes)
             key == SubSeq(d.bytes, 1, eq - 1)
             value == SubSeq(d.bytes, eq + 1, Len(d.bytes))
         IN  IF ~l.ok \/ ~d.ok \/ eq = 0 THEN [ok |-> FALSE, fields |-> {}]
             ELSE DecodeEntries(
                     SubSeq(payload, d.pos + 1, Len(payload)),
                     {f \in fields : f[1] # key} \cup {<<key, value>>})

decode(peer, pos) ==
    LET l == ReadExact(peer, pos, 4)
        d == ReadExact(peer, l.pos, LEValue(l.bytes))
        parsed == DecodeEntries(d.bytes, {})
    IN  IF ~l.ok THEN [ok |-> FALSE, err |-> "Io", fields |-> {}, pos |-> l.pos]
        ELSE IF ~d.ok THEN [ok |-> FALSE, err |-> "Io", fields |-> {}, pos |-> d.pos]
        ELSE IF ~parsed.ok
             THEN [ok |-> FALSE, err |-> "HeaderMalformed", fields |-> {}, pos |-> d.pos]
        ELSE [ok |-> TRUE, err |-> "", fields |-> parsed.fields, pos |-> d.pos]

HasKey(fields, key) == \E f \in fields : f[1] = key

(***************************************************************************)
(* Results: Result<ServiceResult<Response>>                                *)
(***************************************************************************)
Result(t, e, m, d) == [t |-> t, e |-> e, m |-> m, d |-> d]
NoResult == Result("none", "", <<>>, <<>>)
OkOk(ty, val) == Result("OkOk", "", val, <<ty>>)
OkErr(message) == Result("OkErr", "", message, <<>>)
Err(kind) == Result("Err", kind, <<>>, <<>>)
ServiceConnectionFail(service, uri) == Result("Err", "ServiceConnectionFail", <<>>, <<service>> \o uri)
HeaderMissingField(name) == Result("Err", "HeaderMissingField", name, <<>>)

(***************************************************************************)
(* Client (rosrust/src/tcpros/client.rs)                                   *)
(***************************************************************************)
Calls == {"sync", "async"}

\* the URI is a sequence of tokens; the scheme prefix is one token
Scheme == "rosrpc://"

RECURSIVE trim_start_matches(_, _)
\* str::trim_start_matches: every leading repetition of the pattern is removed
trim_start_matches(uri, pat) ==
    IF uri # <<>> /\ uri[1] = pat THEN trim_start_matches(Tail(uri), pat) ELSE uri

NoCall ==
    [pc |-> "none", uri |-> <<>>, caller_id |-> "", service |-> "", args |-> Msg("Empty", <<>>),
     addr |-> <<>>, pos |-> 0, vbyte |-> -1, result |-> NoResult, log |-> <<>>,
     sent |-> <<>>, opened |-> 0, closed |-> 0, fault |-> FALSE]

\* request_body(args, uri, caller_id, service) entered
request_body(a, uri, caller_id, service) ==
    [NoCall EXCEPT !.pc = "connect", !.uri = uri, !.caller_id = caller_id,
                   !.service = service, !.args = a]

\* Return with the stream kept alive past the end of request_body
Return_keeps_stream(c, st, res) ==
    /\ call' = [call EXCEPT ![c] = [st EXCEPT !.pc = "done", !.result = res]]
    /\ main' = IF c = "sync" THEN "idle" ELSE main

\* the function returns: the stream, if there is one, is dropped with it
Return(c, st, res) ==
    /\ call' = [call EXCEPT ![c] = [st EXCEPT !.pc = "done", !.result = res,
                                              !.closed = st.opened]]
    /\ main' = IF c = "sync" THEN "idle" ELSE main

\* the thread unwinds out of request_body
Unwind(c, st) ==
    /\ call' = [call EXCEPT ![c] = [st EXCEPT !.pc = "panicked", !.closed = st.opened]]
    /\ main' = IF c = "sync" THEN "panicked" ELSE main

Goto(c, st, pc) ==
    /\ call' = [call EXCEPT ![c] = [st EXCEPT !.pc = pc]]
    /\ UNCHANGED main

Logged(st, ev) == [st EXCEPT !.log = Append(@, ev)]
Faulted(st) == [st EXCEPT !.fault = TRUE]

\* Connect reporting the address it dialled instead of the URI it was given
Connect_reports_address(c) ==
    /\ call[c].pc = "connect"
    /\ LET st == [Logged(call[c], "connect") EXCEPT
                     !.addr = trim_start_matches(call[c].uri, Scheme)]
       IN  IF net.connect
           THEN Goto(c, [st EXCEPT !.opened = @ + 1], "write_request")
           ELSE Return(c, Faulted(st), ServiceConnectionFail(st.service, st.addr))
    /\ UNCHANGED <<encVars, info, svc, args, net, handle, readResult, cb>>

\* TcpStream::connect(uri.trim_start_matches("rosrpc://")), chain_err
Connect(c) ==
    /\ call[c].pc = "connect"
    /\ LET st == [Logged(call[c], "connect") EXCEPT
                     !.addr = trim_start_matches(call[c].uri, Scheme)]
       IN  IF net.connect
           THEN Goto(c, [st EXCEPT !.opened = @ + 1], "write_request")
           ELSE Return(c, Faulted(st), ServiceConnectionFail(st.service, st.uri))
    /\ UNCHANGED <<encVars, info, svc, args, net, handle, readResult, cb>>

\* the four fields write_request inserts
RequestFields(caller_id, service) ==
    {<<"callerid", caller_id>>, <<"service", service>>,
     <<"md5sum", svc.md5sum>>, <<"type", svc.msg_type>>}

\* WriteRequest sending the request body along with the header, before the
\* response header has been read
WriteRequest_pipelined(c) ==
    /\ call[c].pc = "write_request"
    /\ LET st == Logged(Logged(call[c], "write_request"), "write_body")
       IN  IF net.failWrite = "header"
           THEN Return(c, Faulted(st), Err("Io"))
           ELSE Goto(c, [st EXCEPT !.sent = @ \o
                            <<[fields |-> RequestFields(st.caller_id, st.service),
                               bytes |-> <<>>],
                              [fields |-> {}, bytes |-> Prefixed(EncodeMsg(st.args))]>>],
                     "read_response")
    /\ UNCHANGED <<encVars, info, svc, args, net, handle, readResult, cb>>

\* exchange_headers, first half: write_request
WriteRequest(c) ==
    /\ call[c].pc = "write_request"
    /\ LET st == Logged(call[c], "write_request")
       IN  IF net.failWrite = "header"
           THEN Return(c, Faulted(st), Err("Io"))
           ELSE Goto(c, [st EXCEPT !.sent = Append(@,
                            [fields |-> RequestFields(st.caller_id, st.service),
                             bytes |-> <<>>])],
                     "read_response")
    /\ UNCHANGED <<encVars, info, svc, args, net, handle, readResult, cb>>

\* the bytes the peer sends on the call's own connection
Peer(c) == IF c = "async" THEN net.twin ELSE net.peer

\* read_response that also insists on the peer's md5sum
read_response_wants_md5sum(peer, pos) ==
    LET h == decode(peer, pos)
    IN  IF ~h.ok THEN [res |-> Err(h.err), pos |-> h.pos, fault |-> TRUE]
        ELSE IF ~HasKey(h.fields, Callerid)
             THEN [res |-> HeaderMissingField(Callerid), pos |-> h.pos, fault |-> TRUE]
        ELSE IF ~HasKey(h.fields, Md5sum)
             THEN [res |-> HeaderMissingField(Md5sum), pos |-> h.pos, fault |-> TRUE]
        ELSE [res |-> NoResult, pos |-> h.pos, fault |-> FALSE]

\* read_response: Ok(()) or the error it returns
read_response(peer, pos) ==
    LET h == decode(peer, pos)
    IN  IF ~h.ok THEN [res |-> Err(h.err), pos |-> h.pos, fault |-> TRUE]
        ELSE IF ~HasKey(h.fields, Callerid)
             THEN [res |-> HeaderMissingField(Callerid), pos |-> h.pos, fault |-> TRUE]
        ELSE [res |-> NoResult, pos |-> h.pos, fault |-> FALSE]

\* exchange_headers, second half: read_response
ReadResponse(c) ==
    /\ call[c].pc = "read_response"
    /\ LET r == read_response(Peer(c), call[c].pos)
           st == [Logged(call[c], "read_response") EXCEPT
                     !.pos = r.pos, !.fault = @ \/ r.fault]
       IN  IF r.res # NoResult THEN Return(c, st, r.res)
           ELSE Goto(c, st, "write_body")
    /\ UNCHANGED <<encVars, info, svc, args, net, handle, readResult, cb>>

\* io::Cursor<Vec<u8>>::write: the gap up to the position is zero-filled, bytes
\* already there are overwritten, the rest is appended
CursorWrite(w, bytes) ==
    LET padded == w.buf \o [i \in 1..(w.pos - Len(w.buf)) |-> 0]
        over == IF Len(padded) - w.pos < Len(bytes) THEN Len(padded) - w.pos ELSE Len(bytes)
    IN  [buf |-> SubSeq(padded, 1, w.pos) \o bytes
                 \o SubSeq(padded, w.pos + over + 1, Len(padded)),
         pos |-> w.pos + Len(bytes)]

\* write_all: nothing is written for an empty buffer
CursorWriteAll(w, bytes) == IF bytes = <<>> THEN w ELSE CursorWrite(w, bytes)

\* (writer.position() - 4) as u32, then message_length.encode: the u32's four
\* bytes, least significant first.  count: the u64 writer.position() - 4
MessageLength(count) == as_u32(count)

\* BodyBuffer without the 4 bytes skipped before the request is encoded
BodyBuffer_unreserved(a) ==
    LET writer == [buf |-> <<>>, pos |-> 0]
        encoded == CursorWriteAll(writer, EncodeMsg(a))
        message_length == MessageLength(LEBytes(encoded.pos, UsizeBytes))
        prefixed == CursorWriteAll([encoded EXCEPT !.pos = 0], message_length)
    IN  prefixed.buf

\* the buffer request_body builds: 4 bytes skipped, the request encoded, the
\* length written at position 0
BodyBuffer(a) ==
    LET writer == [buf |-> <<>>, pos |-> 4]
        encoded == CursorWriteAll(writer, EncodeMsg(a))
        message_length == MessageLength(LEBytes(encoded.pos - 4, UsizeBytes))
        prefixed == CursorWriteAll([encoded EXCEPT !.pos = 0], message_length)
    IN  prefixed.buf

\* args.encode, the length prefix, stream.write_all(&writer.into_inner())
WriteBody(c) ==
    /\ call[c].pc = "write_body"
    /\ LET st == Logged(call[c], "write_body")
       IN  IF net.panic = "encode" THEN Unwind(c, st)
           ELSE IF net.failWrite = "body" THEN Return(c, Faulted(st), Err("Io"))
           ELSE Goto(c, [st EXCEPT !.sent = Append(@,
                            [fields |-> {}, bytes |-> BodyBuffer(st.args)])],
                     "read_verification_byte")
    /\ UNCHANGED <<encVars, info, svc, args, net, handle, readResult, cb>>

\* read_verification_byte taking only 1 for success
read_verification_byte_is_one(peer, pos) ==
    LET r == ReadExact(peer, pos, 1)
    IN  [ok |-> r.ok, success |-> r.ok /\ r.bytes[1] = 1, pos |-> r.pos,
         byte |-> IF r.ok THEN r.bytes[1] ELSE -1]

\* reader.read_u8().map(|v| v != 0)
read_verification_byte(peer, pos) ==
    LET r == ReadExact(peer, pos, 1)
    IN  [ok |-> r.ok, success |-> r.ok /\ r.bytes[1] # 0, pos |-> r.pos,
         byte |-> IF r.ok THEN r.bytes[1] ELSE -1]

ReadVerificationByte(c) ==
    /\ call[c].pc = "read_verification_byte"
    /\ LET r == read_verification_byte(Peer(c), call[c].pos)
           st == [Logged(call[c], "read_verification_byte") EXCEPT
                     !.pos = r.pos, !.vbyte = r.byte]
       IN  IF ~r.ok THEN Return(c, Faulted(st), Err("ServiceResponseInterruption"))
           ELSE IF r.success THEN Goto(c, st, "read_length")
           ELSE Goto(c, st, "decode_failure")
    /\ UNCHANGED <<encVars, info, svc, args, net, handle, readResult, cb>>

\* let _length = stream.read_u32::<LittleEndian>(): the io::Result is dropped
ReadLength(c) ==
    /\ call[c].pc = "read_length"
    /\ LET r == ReadExact(Peer(c), call[c].pos, 4)
           st == [Logged(call[c], "read_length") EXCEPT
                     !.pos = r.pos, !.fault = @ \/ ~r.ok]
       IN  Goto(c, st, "decode_response")
    /\ UNCHANGED <<encVars, info, svc, args, net, handle, readResult, cb>>

\* Ok(RosMsg::decode(&mut stream)?)
DecodeResponse(c) ==
    /\ call[c].pc = "decode_response"
    /\ LET r == DecodeMsg(svc.response, Peer(c), call[c].pos)
           st == [Logged(call[c], "decode_response") EXCEPT
                     !.pos = r.pos, !.fault = @ \/ ~r.ok]
       IN  IF net.panic = "decode" THEN Unwind(c, st)
           ELSE IF r.ok THEN Return(c, st, OkOk(svc.response, r.val))
           ELSE Return(c, st, Err(r.err))
    /\ UNCHANGED <<encVars, info, svc, args, net, handle, readResult, cb>>

\* Err(RosMsg::decode(&mut stream)?): the failure string
DecodeFailure(c) ==
    /\ call[c].pc = "decode_failure"
    /\ LET r == DecodeStr(Peer(c), call[c].pos)
           st == [Logged(call[c], "decode_failure") EXCEPT
                     !.pos = r.pos, !.fault = @ \/ ~r.ok]
       IN  IF r.ok THEN Return(c, st, OkErr(r.val))
           ELSE Return(c, st, Err(r.err))
    /\ UNCHANGED <<encVars, info, svc, args, net, handle, readResult, cb>>

\* Client::req
Req ==
    /\ main = "idle"
    /\ call["sync"].pc = "none"
    /\ call' = [call EXCEPT !["sync"] =
                   request_body(args, info.uri, info.caller_id, info.service)]
    /\ main' = "in_req"
    /\ UNCHANGED <<encVars, info, svc, args, net, handle, readResult, cb>>

\* req_async handing caller_id and service to request_body in the wrong order
ReqAsync_swapped ==
    /\ main = "idle"
    /\ handle = "none"
    /\ call' = [call EXCEPT !["async"] =
                   request_body(args, info.uri, info.service, info.caller_id)]
    /\ handle' = "held"
    /\ UNCHANGED <<encVars, info, svc, args, net, main, readResult, cb>>

\* Client::req_async: the worker is spawned, the handle returned
ReqAsync ==
    /\ main = "idle"
    /\ handle = "none"
    /\ call' = [call EXCEPT !["async"] =
                   request_body(args, info.uri, info.caller_id, info.service)]
    /\ handle' = "held"
    /\ UNCHANGED <<encVars, info, svc, args, net, main, readResult, cb>>

Finished(c) == call[c].pc \in {"done", "panicked"}

\* read reporting a worker's panic as an interrupted response
read_reports_interruption(worker) ==
    IF worker.pc = "panicked" THEN Err("ServiceResponseInterruption") ELSE worker.result

\* self.handle.join().unwrap_or_else(|_| Err(ServiceResponseUnknown.into()))
read(worker) ==
    IF worker.pc = "panicked" THEN Err("ServiceResponseUnknown") ELSE worker.result

\* ClientResponse::read called on the main thread: it blocks in join
ReadCall ==
    /\ main = "idle"
    /\ handle = "held"
    /\ main' = "joining"
    /\ handle' = "joined"
    /\ UNCHANGED <<encVars, info, svc, args, net, call, readResult, cb>>

\* join returns once the worker has finished
ReadReturn ==
    /\ main = "joining"
    /\ Finished("async")
    /\ readResult' = read(call["async"])
    /\ main' = "idle"
    /\ UNCHANGED <<encVars, info, svc, args, net, call, handle, cb>>

\* callback without the spawn: callback(self.read()) on the calling thread
Callback_inline ==
    /\ main = "idle"
    /\ handle = "held"
    /\ handle' = "moved"
    /\ main' = "joining"
    /\ cb' = [cb EXCEPT !.pc = "joining", !.thread = "main"]
    /\ UNCHANGED <<encVars, info, svc, args, net, call, readResult>>

\* ClientResponse::callback: thread::spawn(move || callback(self.read()))
Callback ==
    /\ main = "idle"
    /\ handle = "held"
    /\ handle' = "moved"
    /\ cb' = [cb EXCEPT !.pc = "joining", !.thread = "spawned"]
    /\ UNCHANGED <<encVars, info, svc, args, net, call, main, readResult>>

\* the spawned thread: self.read() returns, the callback is invoked with it
CallbackRun ==
    /\ cb.pc = "joining"
    /\ Finished("async")
    /\ cb' = [cb EXCEPT !.pc = "done", !.calls = @ + 1, !.arg = read(call["async"])]
    /\ UNCHANGED <<encVars, info, svc, args, net, call, main, handle, readResult>>

\* DropHandle taking the worker down with the handle
DropHandle_cancels ==
    /\ main = "idle"
    /\ handle = "held"
    /\ handle' = "dropped"
    /\ call' = [call EXCEPT !["async"] =
                   IF Finished("async") THEN @
                   ELSE [@ EXCEPT !.pc = "done", !.closed = call["async"].opened]]
    /\ UNCHANGED <<encVars, info, svc, args, net, main, readResult, cb>>

\* the handle goes out of scope unused: JoinHandle's drop detaches the thread
DropHandle ==
    /\ main = "idle"
    /\ handle = "held"
    /\ handle' = "dropped"
    /\ UNCHANGED <<encVars, info, svc, args, net, call, main, readResult, cb>>

(***************************************************************************)
(* The clients, services, requests and network behaviours explored         *)
(***************************************************************************)
Infos ==
    {[caller_id |-> "/me", uri |-> u, service |-> "/add"] :
        u \in {<<Scheme, "h:1">>, <<"h:1">>, <<Scheme, Scheme, "h:1">>, <<"http://", "h:1">>}}

Requests == {Msg("Empty", <<>>), Msg("U8", <<5>>), Msg("Str", <<104, 105>>)}

\* peer: what the peer sends on the connection of req; twin: what it sends on
\* the connection of req_async's worker (the same bytes, unless said otherwise)
Net(connect, failWrite, panic, peer) ==
    [connect |-> connect, failWrite |-> failWrite, panic |-> panic, peer |-> peer,
     twin |-> peer]

Prefixes(bs) == {SubSeq(bs, 1, n) : n \in 0..Len(bs)}

GoodHeader == HeaderBytes(<<HeaderEntry(Callerid, Srv)>>)

PeerHeaders ==
    {GoodHeader,
     HeaderBytes(<<HeaderEntry(Callerid, <<>>)>>),
     HeaderBytes(<<HeaderEntry(Md5sum, <<120>>), HeaderEntry(Callerid, <<115>>)>>),
     HeaderBytes(<<HeaderEntry(Callerid, <<115>>), HeaderEntry(Callerid, <<120>>)>>),
     HeaderBytes(<<HeaderEntry(Md5sum, <<120>>)>>),
     HeaderBytes(<<HeaderEntry(<<120>>, Callerid)>>),
     HeaderBytes(<<>>),
     HeaderBytes(<<Callerid>>),
     HeaderBytes(<<HeaderEntry(Callerid, Srv), Md5sum>>)}

\* what the peer sends after its header
FailureTails ==
    {<<0>> \o Prefixed(BadArg), <<0>> \o Prefixed(<<>>), <<0>> \o Prefixed(<<98, 255>>)}

SuccessTails ==
    {<<1, 0, 0, 0, 0>>,
     <<1, 1, 0, 0, 0, 9>>,
     <<2, 7, 0, 0, 0, 9>>,
     <<255>> \o Prefixed(Prefixed(<<111, 107>>)),
     <<1, 0, 0, 0, 0>> \o Prefixed(<<111, 107>>)}

Tails == FailureTails \cup SuccessTails

Services == {[md5sum |-> "d41d", msg_type |-> "pkg/Srv", response |-> ty] : ty \in MsgTypes}

DefaultInfo == [caller_id |-> "/me", uri |-> <<Scheme, "h:1">>, service |-> "/add"]
DefaultService == [md5sum |-> "d41d", msg_type |-> "pkg/Srv", response |-> "U8"]
DefaultRequest == Msg("U8", <<5>>)

Env(i, s, a, n) == [info |-> i, svc |-> s, args |-> a, net |-> n]

Envs ==
    \* the connect fails
    {Env(i, DefaultService, DefaultRequest, Net(FALSE, "none", "none", <<>>)) : i \in Infos}
    \* a write fails
    \cup {Env(DefaultInfo, DefaultService, DefaultRequest,
              Net(TRUE, w, "none", GoodHeader \o <<1, 1, 0, 0, 0, 9>>)) :
            w \in {"header", "body"}}
    \* the peer's header varies
    \cup {Env(DefaultInfo, DefaultService, a, Net(TRUE, "none", "none", h \o <<1, 1, 0, 0, 0, 9>>)) :
            h \in PeerHeaders, a \in Requests}
    \* the peer stops sending anywhere in its answer
    \cup {Env(DefaultInfo, s, DefaultRequest, Net(TRUE, "none", "none", p)) :
            s \in Services, p \in UNION {Prefixes(GoodHeader \o t) : t \in Tails}}
    \* the request's encode or the response's decode panics
    \cup {Env(i, s, DefaultRequest, Net(TRUE, "none", p, GoodHeader \o t)) :
            i \in {DefaultInfo}, s \in Services, p \in {"encode", "decode"},
            t \in {<<1, 1, 0, 0, 0, 9>>, <<0>> \o Prefixed(BadArg), <<1>>}}

NoCallback == [pc |-> "none", calls |-> 0, thread |-> "", arg |-> NoResult]

ClientStart(envs) ==
    /\ \E env \in envs :
          /\ info = env.info
          /\ svc = env.svc
          /\ args = env.args
          /\ net = env.net
    /\ call = [c \in Calls |-> NoCall]
    /\ main = "idle"
    /\ handle = "none"
    /\ readResult = NoResult
    /\ cb = NoCallback

ClientInit == ClientStart(Envs)

\* the 4 bytes the peer sends between the verification byte and the response:
\* 0, 1, 6, 2^32 - 1
LengthFields == {<<0, 0, 0, 0>>, <<1, 0, 0, 0>>, <<6, 0, 0, 0>>, <<255, 255, 255, 255>>}

\* what follows them: nothing, one byte, the string "ok", a string cut short,
\* a string that is not UTF-8
ResponseBodies ==
    {<<>>, <<9>>, Prefixed(<<111, 107>>), <<2, 0, 0, 0, 111>>, <<1, 0, 0, 0, 255>>}

\* two answers of the peer that differ in the length field only; with the last
\* set, the connection closes inside the length field
TwinTails ==
    {<<(<<vb>> \o l1 \o b), (<<vb>> \o l2 \o b)>> :
        vb \in {1, 255}, l1 \in LengthFields, l2 \in LengthFields, b \in ResponseBodies}
    \cup {<<(<<1>> \o SubSeq(l1, 1, n)), (<<1>> \o SubSeq(l2, 1, n))>> :
            l1 \in LengthFields, l2 \in LengthFields, n \in 0..3}

\* req and req_async's worker each get one of the two answers; on the failure
\* path both get the same
TwinEnvs ==
    {Env(DefaultInfo, s, DefaultRequest,
         [Net(TRUE, "none", "none", GoodHeader \o t[1]) EXCEPT !.twin = GoodHeader \o t[2]]) :
        s \in Services, t \in TwinTails}
    \cup {Env(DefaultInfo, DefaultService, DefaultRequest,
               Net(TRUE, "none", "none", GoodHeader \o t)) : t \in FailureTails}

\* one blocking step of a request_body activation
Step(c) ==
    \/ Connect(c)
    \/ WriteRequest(c)
    \/ ReadResponse(c)
    \/ WriteBody(c)
    \/ ReadVerificationByte(c)
    \/ ReadLength(c)
    \/ DecodeResponse(c)
    \/ DecodeFailure(c)

\* the thread req_async spawned
Worker == Step("async")

(***************************************************************************)
(* EncSpec: the encoder's state machine                                    *)
(***************************************************************************)
EncIdle ==
    /\ encoder = new
    /\ history = <<>>
    /\ sink = <<>>

\* the encoder alone: the client's variables stay at one initial state
EncInit ==
    /\ EncIdle
    /\ info = DefaultInfo
    /\ svc = DefaultService
    /\ args = DefaultRequest
    /\ net = Net(TRUE, "none", "none", <<>>)
    /\ call = [c \in Calls |-> NoCall]
    /\ main = "idle"
    /\ handle = "none"
    /\ readResult = NoResult
    /\ cb = NoCallback

\* v.encode(&mut encoder)
EncodeValue(v) ==
    /\ Len(history) < MaxEmits
    /\ LET r == Encode(encoder, v)
       IN  /\ encoder' = r.enc
           /\ history' = Append(history,
                  [v |-> v, err |-> r.err,
                   start |-> Len(encoder.output),
                   offset |-> len(encoder),
                   fills |-> Len(encoder.fills)])
    /\ UNCHANGED <<sink, clientVars>>

\* tests::pull_data: encoder.write_to(&mut cursor)
WriteTo ==
    /\ history # <<>>
    /\ sink = <<>>
    /\ sink' = write_to(encoder, sink)
    /\ UNCHANGED <<encoder, history, clientVars>>

EncodeFresh == \E v \in Values : history = <<>> /\ EncodeValue(v)
EncodeLater == \E v \in LaterValues : history # <<>> /\ sink = <<>> /\ EncodeValue(v)

EncNext == EncodeFresh \/ EncodeLater \/ WriteTo

vars == <<encVars, clientVars>>

EncSpec == EncInit /\ [][EncNext]_vars

(***************************************************************************)
(* SizeSpec: the writers of length prefixes, applied to counts             *)
(***************************************************************************)
\* the counts handed to the writers: data.len() of emit_str, len of emit_seq,
\* the summed chunk lengths of emit_tuple / emit_seq, writer.position() - 4 of
\* request_body.  The last five are 2^32 - 1, 2^32, 2^32 + 5, 2^33 + 2^24 and
\* 2^64 - 1.
Counts ==
    {usize(0), usize(5), usize(255), usize(256), usize(70000), usize(2147483647),
     <<255, 255, 255, 255, 0, 0, 0, 0>>,
     <<0, 0, 0, 0, 1, 0, 0, 0>>,
     <<5, 0, 0, 0, 1, 0, 0, 0>>,
     <<0, 0, 0, 1, 2, 0, 0, 0>>,
     <<255, 255, 255, 255, 255, 255, 255, 255>>}

Written(op, count, prefix) == [op |-> op, count |-> count, prefix |-> prefix]

\* write_size(v), as emit_str and emit_seq call it
WriteSize(v) ==
    /\ Len(history) < MaxEmits
    /\ LET r == write_size(encoder, v)
       IN  /\ encoder' = r.enc
           /\ history' = Append(history,
                  Written("write_size", v, r.enc.output[Len(r.enc.output)]))
    /\ UNCHANGED <<sink, clientVars>>

\* the chunk reserved, then write_size_in_middle(position - 1, length), as
\* emit_tuple and emit_seq do around their content
WriteSizeInMiddle(v) ==
    /\ Len(history) < MaxEmits
    /\ LET pushed == [encoder EXCEPT !.output = Append(@, <<>>)]
           position == Len(pushed.output)
           r == write_size_in_middle(pushed, position - 1, v)
       IN  /\ encoder' = r.enc
           /\ history' = Append(history,
                  Written("write_size_in_middle", v, r.enc.output[position]))
    /\ UNCHANGED <<sink, clientVars>>

\* request_body: message_length written at the start of the writer
WriteMessageLength(v) ==
    /\ Len(history) < MaxEmits
    /\ LET w == CursorWriteAll([buf |-> <<>>, pos |-> 0], MessageLength(v))
       IN  history' = Append(history, Written("message_length", v, w.buf))
    /\ UNCHANGED <<encoder, sink, clientVars>>

SizeNext ==
    \/ \E v \in Counts : WriteSize(v)
    \/ \E v \in Counts : WriteSizeInMiddle(v)
    \/ \E v \in Counts : WriteMessageLength(v)

SizeSpec == EncInit /\ [][SizeNext]_vars

(***************************************************************************)
(* Spec: the client's state machine                                        *)
(***************************************************************************)
Init == ClientInit /\ EncIdle

Next ==
    \/ Req
    \/ ReqAsync
    \/ \E c \in Calls : Connect(c)
    \/ \E c \in Calls : WriteRequest(c)
    \/ \E c \in Calls : ReadResponse(c)
    \/ \E c \in Calls : WriteBody(c)
    \/ \E c \in Calls : ReadVerificationByte(c)
    \/ \E c \in Calls : ReadLength(c)
    \/ \E c \in Calls : DecodeResponse(c)
    \/ \E c \in Calls : DecodeFailure(c)
    \/ ReadCall
    \/ ReadReturn
    \/ Callback
    \/ CallbackRun
    \/ DropHandle

Spec == Init /\ [][Next]_vars

TwinInit == ClientStart(TwinEnvs) /\ EncIdle

\* the same client, its two calls answered by streams that differ in the
\* length field only
TwinSpec == TwinInit /\ [][Next]_vars

\* the spawned threads are scheduled: the worker and the callback thread each
\* take their next step when it stays possible
\* a request_body activation that has begun and not ended can take its next
\* step: every step from connect to the last decode is a call that returns
WorkerEnabled == call["async"].pc \notin {"none", "done", "panicked"}

\* WF_vars(Worker), written out with WorkerEnabled for ENABLED <<Worker>>_vars
WorkerFair == []<>(~WorkerEnabled) \/ []<><<Worker>>_vars

LiveSpec == Spec /\ WorkerFair /\ WF_vars(CallbackRun)

(***************************************************************************)
(* Client claims                                                           *)
(***************************************************************************)
InLog(c, ev) == \E i \in 1..Len(call[c].log) : call[c].log[i] = ev

\* the bytes of the peer's header, read off its length prefix (all the peer sent,
\* when that is less than a length prefix)
HeaderEnd ==
    IF Len(net.peer) >= 4 THEN 4 + LEValue(SubSeq(net.peer, 1, 4)) ELSE Len(net.peer)

\* a well-formed length-prefixed string lies at (0-based) offset off of the peer's bytes
StringAt(off) ==
    /\ Len(net.peer) >= off + 4
    /\ Len(net.peer) >= off + 4 + LEValue(SubSeq(net.peer, off + 1, off + 4))
    /\ \A i \in (off + 5)..(off + 4 + LEValue(SubSeq(net.peer, off + 1, off + 4))) :
          net.peer[i] < 128
StringValue(off) ==
    SubSeq(net.peer, off + 5, off + 4 + LEValue(SubSeq(net.peer, off + 1, off + 4)))

\* a well-formed response body of the service's Response type lies at offset off
BodyAt(off) ==
    CASE svc.response = "Empty" -> TRUE
      [] svc.response = "U8" -> Len(net.peer) >= off + 1
      [] svc.response = "Str" -> StringAt(off)
BodyValue(off) ==
    CASE svc.response = "Empty" -> <<>>
      [] svc.response = "U8" -> <<net.peer[off + 1]>>
      [] svc.response = "Str" -> StringValue(off)

C1_WitnessSuccess ==
    /\ call["sync"].pc = "done"
    /\ call["sync"].vbyte = 255
    /\ call["sync"].result = OkOk("Str", <<111, 107>>)

\* C2: a call in which a transport-level fault occurred (connect failure, failed
\* write, bad header, short read anywhere, the 4 length bytes included) returns a
\* transport Err, whatever the Response type.
C2_FaultGivesTransportErr ==
    \A c \in Calls :
        (call[c].pc = "done" /\ call[c].fault) => call[c].result.t = "Err"

\* C3: a decoded response header without callerid ends the call with
\* Err(HeaderMissingField("callerid")), the body unwritten and no verification
\* byte read; with callerid present, whatever its value and the other fields, the
\* handshake succeeds and the call goes on to write the body.
C3_CalleridRequired ==
    \A c \in Calls :
        (InLog(c, "read_response") /\ decode(net.peer, 0).ok) =>
            IF HasKey(decode(net.peer, 0).fields, Callerid)
            THEN /\ call[c].result.e # "HeaderMissingField"
                 /\ call[c].pc = "write_body" \/ InLog(c, "write_body")
            ELSE /\ call[c].pc = "done"
                 /\ call[c].result = HeaderMissingField(Callerid)
                 /\ call[c].log = <<"connect", "write_request", "read_response">>
                 /\ Len(call[c].sent) = 1
                 /\ call[c].vbyte = -1
                 /\ call[c].pos = HeaderEnd

\* the peer's header holds md5sum=x only
C3_Witness ==
    /\ net.peer = HeaderBytes(<<HeaderEntry(Md5sum, <<120>>)>>) \o <<1, 1, 0, 0, 0, 9>>
    /\ call["async"].pc = "done"
    /\ call["async"].result = HeaderMissingField(Callerid)

\* C4: when the connect fails the call ends with ServiceConnectionFail carrying
\* the service name and the URI as given to new, and nothing else happens in the
\* call: no header written, no byte read, no second connect.
C4_ConnectFailureIsTerminal ==
    \A c \in Calls :
        (~net.connect /\ call[c].pc \notin {"none", "connect"}) =>
            /\ call[c].pc = "done"
            /\ call[c].result = ServiceConnectionFail(info.service, info.uri)
            /\ call[c].log = <<"connect">>
            /\ call[c].sent = <<>>
            /\ call[c].pos = 0
            /\ call[c].opened = 0

C4_Witness ==
    /\ ~net.connect
    /\ info.uri = <<Scheme, "h:1">>
    /\ call["sync"].result = ServiceConnectionFail("/add", <<Scheme, "h:1">>)
    /\ call["async"].pc = "done"

IsPrefix(p, q) == Len(p) <= Len(q) /\ SubSeq(q, 1, Len(p)) = p

SuccessOrder == <<"connect", "write_request", "read_response", "write_body",
                  "read_verification_byte", "read_length", "decode_response">>
FailureOrder == <<"connect", "write_request", "read_response", "write_body",
                  "read_verification_byte", "decode_failure">>

\* C5: the events of a call occur in the one fixed order connect, write header,
\* read header, write body, read verification byte, read response or failure
\* string; the whole header is written before the response header is read, and
\* the whole body after the header was validated and before any further read.
C5_FixedOrder ==
    \A c \in Calls :
        /\ IsPrefix(call[c].log, SuccessOrder) \/ IsPrefix(call[c].log, FailureOrder)
        /\ InLog(c, "read_response") =>
              /\ Len(call[c].sent) >= 1
              /\ call[c].sent[1].fields =
                    {<<"callerid", info.caller_id>>, <<"service", info.service>>,
                     <<"md5sum", svc.md5sum>>, <<"type", svc.msg_type>>}
        /\ ~InLog(c, "read_response") => call[c].pos = 0
        /\ ~InLog(c, "write_body") => (Len(call[c].sent) <= 1 /\ call[c].pos <= HeaderEnd)
        /\ InLog(c, "write_body") =>
              /\ decode(net.peer, 0).ok
              /\ HasKey(decode(net.peer, 0).fields, Callerid)
        /\ InLog(c, "read_verification_byte") =>
              /\ Len(call[c].sent) = 2
              /\ call[c].sent[2].bytes = Prefixed(EncodeMsg(args))

C5_Witness ==
    /\ call["async"].pc = "done"
    /\ call["async"].log = SuccessOrder
    /\ call["sync"].pc = "read_response"

\* C6: req_async(x).read() returns what req(&x) returns against the same network:
\* the worker runs the same request_body with the same uri, caller_id and service,
\* and read hands over the worker's result unchanged when it finished normally.
C6_AsyncEqualsSync ==
    /\ (Finished("sync") /\ Finished("async")) =>
          /\ call["async"].pc = call["sync"].pc
          /\ call["async"].result = call["sync"].result
          /\ call["async"].log = call["sync"].log
          /\ call["async"].sent = call["sync"].sent
    /\ (readResult # NoResult /\ call["async"].pc = "done") =>
          readResult = call["async"].result
    /\ (readResult # NoResult /\ call["sync"].pc = "done") =>
          readResult = call["sync"].result

C6_Witness ==
    /\ call["sync"].pc = "done"
    /\ readResult = call["sync"].result
    /\ readResult.t = "OkOk"

\* what a callback invocation must look like
CallbackSafe ==
    /\ cb.calls <= 1
    /\ cb.pc = "done" <=> cb.calls = 1
    /\ cb.calls = 1 =>
          /\ Finished("async")
          /\ cb.arg = (IF call["async"].pc = "panicked"
                       THEN Err("ServiceResponseUnknown") ELSE call["async"].result)
    /\ cb.pc # "none" => (cb.thread = "spawned" /\ handle = "moved")
    /\ handle = "moved" => main # "joining"

\* C7: a registered callback is invoked exactly once with the call's outcome, only
\* after the request worker has finished, on the spawned second thread and never
\* on the caller's, which does not wait; also when the worker ends in a transport
\* Err or panics.
C7_CallbackOnceOffThread ==
    /\ []CallbackSafe
    /\ (handle = "moved") ~> (cb.calls = 1)

C7_Witness ==
    /\ cb.calls = 1
    /\ call["async"].pc = "panicked"
    /\ cb.arg = Err("ServiceResponseUnknown")
    /\ main = "in_req"

\* C8: read returns Err(ServiceResponseUnknown) exactly when the worker panicked,
\* and the worker's panic does not unwind the thread that called read.
C8_PanicBecomesUnknown ==
    /\ readResult # NoResult =>
          /\ (readResult = Err("ServiceResponseUnknown")) <=> (call["async"].pc = "panicked")
          /\ readResult.e = "ServiceResponseUnknown" => call["async"].pc = "panicked"
    /\ (main = "joining" /\ call["async"].pc = "panicked") => ENABLED ReadReturn
    /\ main = "panicked" => call["sync"].pc = "panicked"
    /\ \A c \in Calls : call[c].result.e # "ServiceResponseUnknown"

C8_Witness ==
    /\ call["async"].pc = "panicked"
    /\ readResult = Err("ServiceResponseUnknown")
    /\ main = "idle"
    /\ call["sync"].pc = "none"

(***************************************************************************)
(* Encoder claims                                                          *)
(***************************************************************************)
\* the bytes write_to emitted for the i-th encode call
EmissionBytes(i) ==
    SubSeq(sink, history[i].offset + 1,
           IF i < Len(history) THEN history[i + 1].offset ELSE Len(sink))

\* the bytes a value occupies when it starts at (1-based) offset off of bs,
\* read off the wire: fixed widths for leaves, 4 + prefix for what is framed
Extent(v, bs, off) ==
    IF v.k \in CompositeKinds \cup {"str"}
    THEN 4 + LEValue(SubSeq(bs, off, off + 3))
    ELSE Width(v.k)

RECURSIVE FramedAt(_, _, _), Tiles(_, _, _, _)
\* the elements es lie one after another from offset off and end exactly at last
Tiles(es, bs, off, last) ==
    IF es = <<>> THEN off = last + 1
    ELSE /\ FramedAt(es[1], bs, off)
         /\ Tiles(Tail(es), bs, off + Extent(es[1], bs, off), last)

\* v, at offset off of bs, lies within bs, and when it is a composite its prefix
\* is the byte count of its own content and the same holds of every element
FramedAt(v, bs, off) ==
    /\ off + 3 <= Len(bs) \/ ~(v.k \in CompositeKinds \cup {"str"})
    /\ off + Extent(v, bs, off) - 1 <= Len(bs)
    /\ IsComposite(v) =>
          Tiles(v.e, bs, IF v.k = "seq" THEN off + 8 ELSE off + 4,
                off + Extent(v, bs, off) - 1)

\* C9: for every composite value whose encoding succeeds on a fresh Encoder, the
\* bytes written begin with a 4-byte little-endian length equal to the number of
\* bytes after it, and every nested composite's prefix likewise equals the byte
\* count of its own content (nested prefixes included).
C9_PrefixIsContentLength ==
    (/\ Len(history) = 1
     /\ history[1].err = "Ok"
     /\ IsComposite(history[1].v)
     /\ sink # <<>>)
    => /\ LEValue(SubSeq(sink, 1, 4)) = Len(sink) - 4
       /\ FramedAt(history[1].v, sink, 1)

\* tests::writes_complex_struct: three levels of composites, 58 bytes
C9_Witness ==
    /\ Len(history) = 1
    /\ history[1].v = TestStructBig
    /\ history[1].err = "Ok"
    /\ sink = <<54, 0, 0, 0, 43, 0, 0, 0, 3, 0, 0, 0, 8, 0, 0, 0, 3, 0, 0, 0, 65, 66, 67,
                1, 10, 0, 0, 0, 5, 0, 0, 0, 49, 33, 33, 33, 33, 1, 9, 0, 0, 0, 4, 0, 0,
                0, 50, 51, 52, 98, 0, 3, 0, 0, 0, 69, 69, 101>>

\* the encoding of one element on its own
ElemBytes(x) == write_to(Encode(new, x).enc, <<>>)

RECURSIVE ConcatElems(_)
ConcatElems(es) == IF es = <<>> THEN <<>> ELSE ElemBytes(es[1]) \o ConcatElems(Tail(es))

\* C10: a successfully encoded sequence of n elements is written as the 4-byte LE
\* byte size 4 + (encoded size of the elements), then the 4-byte LE count n, then
\* the element encodings in element order; the empty sequence is 4,0,0,0,0,0,0,0.
C10_SeqLayout ==
    sink # <<>> =>
        \A i \in 1..Len(history) :
            (history[i].v.k = "seq" /\ history[i].err = "Ok") =>
                LET es == history[i].v.e
                    body == ConcatElems(es)
                IN  /\ EmissionBytes(i) =
                          LEBytes(4 + Len(body), 4) \o LEBytes(Len(es), 4) \o body
                    /\ es = <<>> => EmissionBytes(i) = <<4, 0, 0, 0, 0, 0, 0, 0>>

\* tests::writes_array, and an empty sequence encoded after it
C10_Witness ==
    /\ Len(history) = 2
    /\ history[1].v = TestArray
    /\ history[2].v = SeqV(<<>>)
    /\ sink = <<12, 0, 0, 0, 4, 0, 0, 0, 7, 0, 1, 4, 33, 0, 57, 0,
                4, 0, 0, 0, 0, 0, 0, 0>>

RECURSIVE AsTuples(_)
\* the value with every struct in it replaced by the tuple of its field values,
\* names dropped and the declared len set to the number of fields
AsTuples(v) ==
    CASE v.k \in {"tuple", "struct"} ->
            Val("tuple", Len(v.e), <<>>, [i \in 1..Len(v.e) |-> AsTuples(v.e[i])], <<>>)
      [] v.k = "seq" ->
            Val("seq", v.v, <<>>, [i \in 1..Len(v.e) |-> AsTuples(v.e[i])], <<>>)
      [] OTHER -> v

\* C11: a struct encodes as the tuple of its field values does: the same result
\* and byte-identical output, whatever the struct's name, its field names and
\* the field count handed to emit_struct / emit_tuple, at every nesting level.
C11_StructEqualsTuple ==
    \A i \in 1..Len(history) :
        LET t == Encode(new, AsTuples(history[i].v))
        IN  /\ history[i].err = t.err
            /\ sink # <<>> => EmissionBytes(i) = write_to(t.enc, <<>>)

\* tests::writes_simple_struct gives the bytes of tests::writes_tuple
C11_Witness ==
    /\ Len(history) = 1
    /\ history[1].v = TestStructOne
    /\ history[1].err = "Ok"
    /\ sink = ElemBytes(TestTuple)
    /\ sink = <<26, 0, 0, 0, 2, 8, 1, 7, 6, 0, 0, 0, 65, 66, 67, 48, 49, 50, 8, 0, 0, 0,
                4, 0, 0, 0, 1, 0, 0, 1>>

RECURSIVE HasUnsupported(_)
\* the value is of an unsupported shape, or holds one at any depth
HasUnsupported(v) ==
    \/ v.k \in UnsupportedKinds
    \/ IsComposite(v) /\ \E i \in 1..Len(v.e) : HasUnsupported(v.e[i])

\* C12: encoding a value that holds an unsupported shape (nil, usize, isize,
\* char, option, map, enum) at any position fails with UnsupportedData, through
\* every enclosing tuple, struct and sequence; it never succeeds.
C12_UnsupportedFails ==
    \A i \in 1..Len(history) :
        HasUnsupported(history[i].v) => history[i].err = "UnsupportedData"

\* nil three composites deep
C12_Witness ==
    /\ Len(history) = 1
    /\ history[1].v = TupleV(<<SeqV(<<StructV(<<"S", "a">>, <<BadV("nil")>>)>>)>>)
    /\ history[1].err = "UnsupportedData"

\* C13: every length prefix written (string length and element count by
\* write_size, composite byte size by write_size_in_middle, request body length
\* by request_body) is 4 bytes whose little-endian value is the count it
\* describes, for every count: never that count reduced modulo 2^32.
C13_PrefixIsExactCount ==
    \A i \in 1..Len(history) :
        /\ Len(history[i].prefix) = 4
        /\ history[i].prefix \o <<0, 0, 0, 0>> = history[i].count

\* the byte count of each integer type
LeafWidth(k) ==
    CASE k \in {"u8", "i8"} -> 1
      [] k \in {"u16", "i16"} -> 2
      [] k \in {"u32", "i32"} -> 4
      [] k \in {"u64", "i64"} -> 8

RECURSIVE FromTwos(_, _)
\* the integer a little-endian two's-complement byte string denotes, taken from
\* its most significant byte down; that byte carries the sign when signed
FromTwos(bs, signed) ==
    IF bs = <<>> THEN 0
    ELSE IF Len(bs) = 1 THEN (IF signed /\ bs[1] >= 128 THEN bs[1] - 256 ELSE bs[1])
    ELSE FromTwos(Tail(bs), signed) * 256 + bs[1]

\* C14: an integer leaf of width w appends exactly w bytes, the little-endian
\* two's-complement representation of its value; bool appends the one byte 1 or
\* 0; a string appends its byte length as 4 bytes LE and then its bytes, the
\* empty string 0,0,0,0.
C14_LeafLayout ==
    sink # <<>> =>
        \A i \in 1..Len(history) :
            LET v == history[i].v
                bs == EmissionBytes(i)
            IN  /\ v.k \in IntKinds =>
                      /\ history[i].err = "Ok"
                      /\ Len(bs) = LeafWidth(v.k)
                      /\ \A j \in 1..Len(bs) : bs[j] \in 0..255
                      /\ FromTwos(bs, v.k \in {"i8", "i16", "i32", "i64"}) = v.v
                /\ v.k = "bool" =>
                      /\ history[i].err = "Ok"
                      /\ bs = (IF v.v = 1 THEN <<1>> ELSE <<0>>)
                /\ v.k = "str" =>
                      /\ history[i].err = "Ok"
                      /\ Len(bs) = 4 + Len(v.s)
                      /\ LEValue(SubSeq(bs, 1, 4)) = Len(v.s)
                      /\ SubSeq(bs, 5, Len(bs)) = v.s
                      /\ v.s = <<>> => bs = <<0, 0, 0, 0>>

\* tests::writes_i32, and a u16 appended after it
C14_Witness ==
    /\ Len(history) = 2
    /\ history[1].v = IntV("i32", -2000000000)
    /\ history[2].v = IntV("u16", 41524)
    /\ sink = <<0, 108, 202, 136, 52, 162>>

\* the writes a call made after its header
BodyWrites(c) == SubSeq(call[c].sent, 2, Len(call[c].sent))

\* C15: the request body goes out as one write of one buffer: 4 bytes holding,
\* little-endian, the number of bytes after them, then exactly the encoded
\* request, no byte of it overwritten or moved by the prefix written last; for
\* an empty request the buffer is the prefix 0,0,0,0 alone.
C15_BodyIsOnePrefixedBuffer ==
    \A c \in Calls :
        /\ Len(BodyWrites(c)) <= 1
        /\ (Len(BodyWrites(c)) = 1) <=>
              (InLog(c, "write_body") /\ net.failWrite # "body" /\ net.panic # "encode")
        /\ \A i \in 1..Len(BodyWrites(c)) :
              LET b == BodyWrites(c)[i].bytes
              IN  /\ Len(b) >= 4
                  /\ LEValue(SubSeq(b, 1, 4)) = Len(b) - 4
                  /\ SubSeq(b, 5, Len(b)) = EncodeMsg(args)
                  /\ EncodeMsg(args) = <<>> => b = <<0, 0, 0, 0>>

\* the empty request, and the body written by both calls
C15_Witness ==
    /\ args = Msg("Empty", <<>>)
    /\ \A c \in Calls : Len(call[c].sent) = 2 /\ call[c].sent[2].bytes = <<0, 0, 0, 0>>

\* a string request: prefix 6, then the string's own prefix and bytes
C15_WitnessString ==
    /\ args = Msg("Str", <<104, 105>>)
    /\ Len(call["sync"].sent) = 2
    /\ call["sync"].sent[2].bytes = <<6, 0, 0, 0, 2, 0, 0, 0, 104, 105>>

\* the connections of the calls: none before the connect, one from a successful
\* connect until the call ends, none left open after it
OneConnection ==
    \A c \in Calls :
        /\ call[c].opened = (IF InLog(c, "connect") /\ net.connect THEN 1 ELSE 0)
        /\ call[c].closed = (IF Finished(c) THEN call[c].opened ELSE 0)
        /\ InLog(c, "connect") <=> call[c].pc \notin {"none", "connect"}

\* C16, as stated: every call that has ended, whichever way, opened exactly one
\* connection and closed it.
C16_ExactlyOneOnEveryPath ==
    \A c \in Calls :
        Finished(c) => (call[c].opened = 1 /\ call[c].closed = 1)

\* C16, amended: every call makes one connect; when it succeeds the call opens
\* exactly one connection, its own, and that connection is closed when the call
\* ends, on every path (success, service-level failure, transport Err, panic);
\* when the connect fails the call opens none.  No step changes the Client.
C16_OneConnectionPerCall ==
    /\ []OneConnection
    /\ [][info' = info /\ svc' = svc]_vars

\* one call ended in a transport Err with its connection closed while the other
\* call's own connection is open
C16_Witness ==
    /\ call["sync"].pc = "done"
    /\ call["sync"].result = HeaderMissingField(Callerid)
    /\ call["sync"].opened = 1
    /\ call["sync"].closed = 1
    /\ call["async"].pc = "read_response"
    /\ call["async"].opened = 1
    /\ call["async"].closed = 0

\* with the handle dropped nobody reads the result, and the worker's call is the
\* call req makes, step for step
DropSafe ==
    handle = "dropped" =>
        /\ readResult = NoResult
        /\ cb = NoCallback
        /\ main # "joining"
        /\ call["async"].pc # "none"
        /\ IsPrefix(call["async"].log, SuccessOrder) \/ IsPrefix(call["async"].log, FailureOrder)
        /\ (Finished("async") /\ Finished("sync")) =>
              /\ call["async"].pc = call["sync"].pc
              /\ call["async"].log = call["sync"].log
              /\ call["async"].sent = call["sync"].sent
              /\ call["async"].result = call["sync"].result
        /\ call["async"].pc = "done" => call["async"].result # NoResult

\* C17: a ClientResponse dropped without read or callback does not cancel the
\* call: the worker goes through every remaining step of request_body and
\* ends (the peer answering or failing), and its result reaches no one.
C17_DropDoesNotCancel ==
    /\ []DropSafe
    /\ (handle = "dropped") ~> Finished("async")

\* the handle is gone and the worker has gone through the whole success path
C17_Witness ==
    /\ handle = "dropped"
    /\ call["async"].pc = "done"
    /\ call["async"].log = SuccessOrder
    /\ call["async"].result.t = "OkOk"
    /\ readResult = NoResult
    /\ cb.calls = 0

\* the two answers are equal but for the (up to) 4 bytes after the verification byte
DifferInLengthOnly ==
    /\ Len(net.peer) = Len(net.twin)
    /\ \A i \in 1..Len(net.peer) :
          i \notin (HeaderEnd + 2)..(HeaderEnd + 5) => net.peer[i] = net.twin[i]

\* two calls whose answers differ in the length field only end the same way
SameOutcome ==
    (DifferInLengthOnly /\ Finished("sync") /\ Finished("async")) =>
        /\ call["async"].pc = call["sync"].pc
        /\ call["async"].result = call["sync"].result
        /\ call["async"].log = call["sync"].log
        /\ call["async"].pos = call["sync"].pos

\* C18: on the success path exactly 4 bytes are consumed between the
\* verification byte and the decode of the response, and their value does not
\* matter: two calls whose peer streams differ only in those bytes return the
\* same result, whether or not the value is the size of what follows.
C18_LengthIsSkipped ==
    /\ SameOutcome
    /\ \A c \in Calls :
          InLog(c, "read_length") =>
              /\ call[c].vbyte \in 1..255
              /\ call[c].pc = "decode_response" => call[c].pos = HeaderEnd + 5

\* where the j-th chunk begins in the bytes written (0-based)
ChunkOffset(j) == SumLen(SubSeq(encoder.output, 1, j - 1))

\* len() against the chunks held and against the bytes write_to has emitted
LenIsBytes ==
    /\ len(new) = 0
    /\ history = <<>> => len(encoder) = 0
    /\ len(encoder) = ChunkOffset(Len(encoder.output) + 1)
    /\ \A i \in 1..Len(history) :
          /\ history[i].offset <= len(encoder)
          /\ i > 1 => history[i - 1].offset <= history[i].offset
    /\ sink # <<>> =>
          /\ Len(sink) = len(encoder)
          /\ \A j \in 1..Len(encoder.output) :
                SubSeq(sink, ChunkOffset(j) + 1, ChunkOffset(j) + Len(encoder.output[j]))
                    = encoder.output[j]

\* C19: after any sequence of emits, failed ones included, len() is the sum of
\* the chunk lengths and the number of bytes write_to emits; write_to emits the
\* chunks in insertion order and leaves the encoder as it was; a new Encoder has
\* length 0.
C19_LenIsBytesWritten ==
    /\ []LenIsBytes
    /\ [][sink' # sink => (encoder' = encoder /\ len(encoder') = Len(sink'))]_vars

\* a tuple that failed at its second element, then a string: 4 chunks, 6 bytes
C19_Witness ==
    /\ Len(history) = 2
    /\ history[1].v = TupleV(<<BoolV(TRUE), BadV("usize")>>)
    /\ history[1].err = "UnsupportedData"
    /\ history[2].v = StrV(<<65>>)
    /\ encoder.output = << <<>>, <<1>>, <<1, 0, 0, 0>>, <<65>> >>
    /\ len(encoder) = 6
    /\ sink = <<1, 1, 0, 0, 0, 65>>

\* the chunks the i-th encode call appended, and len() when it returned
ChunksOf(i) ==
    SubSeq(encoder.output, history[i].start + 1,
           IF i < Len(history) THEN history[i + 1].start ELSE Len(encoder.output))
LenAfter(i) == IF i < Len(history) THEN history[i + 1].offset ELSE len(encoder)

\* the first element that cannot be encoded
FirstBad(es) ==
    CHOOSE j \in 1..Len(es) :
        HasUnsupported(es[j]) /\ \A k \in 1..(j - 1) : ~HasUnsupported(es[k])

RECURSIVE ChunksOfAll(_)
\* the chunks of elements that encode, each as it encodes on its own
ChunksOfAll(es) ==
    IF es = <<>> THEN <<>> ELSE Encode(new, es[1]).enc.output \o ChunksOfAll(Tail(es))

RECURSIVE Residue(_)
\* what a failed encode leaves behind: per enclosing composite its reserved chunk,
\* still empty, a sequence's element count, and the elements emitted before the
\* failing one
Residue(v) ==
    IF ~IsComposite(v) THEN <<>>
    ELSE LET j == FirstBad(v.e)
         IN  << <<>> >>
             \o (IF v.k = "seq" THEN <<LEBytes(Len(v.e), 4)>> ELSE <<>>)
             \o ChunksOfAll(SubSeq(v.e, 1, j - 1))
             \o Residue(v.e[j])

RECURSIVE EmittedBytes(_)
\* the bytes of the elements emitted before the failure, at every enclosing level
EmittedBytes(v) ==
    IF ~IsComposite(v) THEN 0
    ELSE LET j == FirstBad(v.e)
         IN  Len(ConcatElems(SubSeq(v.e, 1, j - 1))) + EmittedBytes(v.e[j])

RECURSIVE SeqsOnPath(_)
\* the sequences among the composites that enclose the failing element
SeqsOnPath(v) ==
    IF ~IsComposite(v) THEN 0
    ELSE (IF v.k = "seq" THEN 1 ELSE 0) + SeqsOnPath(v.e[FirstBad(v.e)])

RECURSIVE ReservedOnPath(_, _)
\* the (0-based) positions of the chunks reserved by the enclosing composites,
\* the outermost at position at
ReservedOnPath(v, at) ==
    IF ~IsComposite(v) THEN {}
    ELSE LET j == FirstBad(v.e)
         IN  {at} \cup ReservedOnPath(v.e[j],
                          at + 1 + (IF v.k = "seq" THEN 1 ELSE 0)
                             + Len(ChunksOfAll(SubSeq(v.e, 1, j - 1))))

\* C20, as stated: after a failed encode inside a tuple, struct or sequence the
\* reserved size-prefix chunk of every enclosing composite is zero-length and
\* len() has grown by the bytes of the elements already emitted, by nothing of
\* the enclosing composites.
C20_OnlyElementBytes ==
    \A i \in 1..Len(history) :
        (IsComposite(history[i].v) /\ history[i].err # "Ok") =>
            /\ \A p \in ReservedOnPath(history[i].v, history[i].start) :
                  encoder.output[p + 1] = <<>>
            /\ LenAfter(i) - history[i].offset = EmittedBytes(history[i].v)

\* C20, amended: a failed encode of an element inside a tuple, struct or
\* sequence is not rolled back: the chunks appended before the failure stay, the
\* chunk reserved for the size prefix of every enclosing composite stays
\* zero-length and is never backfilled, and len() has grown by the bytes of the
\* elements already emitted plus the 4-byte element count of each enclosing
\* sequence, which emit_seq writes before its elements; by no size prefix.
C20_NoRollback ==
    \A i \in 1..Len(history) :
        (IsComposite(history[i].v) /\ history[i].err # "Ok") =>
            LET v == history[i].v
            IN  /\ ChunksOf(i) = Residue(v)
                /\ \A p \in ReservedOnPath(v, history[i].start) :
                      /\ encoder.output[p + 1] = <<>>
                      /\ \A f \in 1..Len(encoder.fills) : encoder.fills[f].position # p
                /\ LenAfter(i) - history[i].offset = EmittedBytes(v) + 4 * SeqsOnPath(v)
                /\ sink # <<>> => Len(EmissionBytes(i)) = EmittedBytes(v) + 4 * SeqsOnPath(v)

\* (tuple(true), [nil]): the inner tuple is complete and backfilled, the outer
\* tuple's and the sequence's reserved chunks are empty, len() is 4 + 1 + 4
C20_Witness ==
    /\ Len(history) = 1
    /\ history[1].v = TupleV(<<TupleV(<<BoolV(TRUE)>>), SeqV(<<BadV("nil")>>)>>)
    /\ history[1].err = "UnsupportedData"
    /\ encoder.output = << <<>>, <<1, 0, 0, 0>>, <<1>>, <<>>, <<1, 0, 0, 0>> >>
    /\ Len(encoder.fills) = 1
    /\ len(encoder) = 9

\* the fills the i-th encode call made, as indices of the log
FillsOf(i) ==
    (history[i].fills + 1) ..
        (IF i < Len(history) THEN history[i + 1].fills ELSE Len(encoder.fills))

\* the chunk vector right after the f-th backfill: what the next backfill found,
\* cut to the chunks there were, or the chunks of the encoder now
AfterFill(f) ==
    SubSeq(IF f < Len(encoder.fills) THEN encoder.fills[f + 1].was ELSE encoder.output,
           1, encoder.fills[f].chunks)

RECURSIVE Backfilled(_, _), BackfilledAll(_, _)
\* the (0-based) positions of the chunks reserved by the composites of v that run
\* to their end, v encoded from chunk position at on: a composite reserves the
\* chunk it starts at, a sequence writes its element count into the next one,
\* and nothing after the first element that fails is encoded
Backfilled(v, at) ==
    IF ~IsComposite(v) THEN {}
    ELSE LET bad == HasUnsupported(v)
             es  == IF bad THEN SubSeq(v.e, 1, FirstBad(v.e)) ELSE v.e
         IN  (IF bad THEN {} ELSE {at})
             \cup BackfilledAll(es, at + 1 + (IF v.k = "seq" THEN 1 ELSE 0))
BackfilledAll(es, at) ==
    IF es = <<>> THEN {}
    ELSE Backfilled(es[1], at)
         \cup BackfilledAll(Tail(es), at + Len(Encode(new, es[1]).enc.output))

\* C21: every backfill (write_size_in_middle) targets a chunk that exists (no
\* encode call panics), empty until then and reserved by the emit_tuple / emit_seq
\* call that backfills it: the chunks the call appended after it are the last of
\* the vector and their bytes are the size written; the backfill makes that chunk
\* exactly the 4 bytes of the size and leaves every other chunk and the order of
\* the chunks as they were; no chunk is backfilled twice; and the chunks an
\* encode call backfills are the reserved chunks of the composites that ran to
\* their end, at whatever depth they are nested.
C21_BackfillFrame ==
    /\ \A i \in 1..Len(history) : history[i].err # "panic"
    /\ \A f \in 1..Len(encoder.fills) :
          LET b == encoder.fills[f]
          IN  /\ b.position >= 0 /\ b.position < b.chunks
              /\ b.chunks = Len(b.was)
              /\ b.before = 0 /\ b.was[b.position + 1] = <<>>
              /\ b.size = usize(SumLen(SubSeq(b.was, b.position + 2, b.chunks)))
              /\ AfterFill(f) = [b.was EXCEPT ![b.position + 1] = as_u32(b.size)]
              /\ Len(encoder.output[b.position + 1]) = 4
              /\ \A g \in 1..Len(encoder.fills) :
                    g # f => encoder.fills[g].position # b.position
    /\ \A i \in 1..Len(history) :
          /\ {encoder.fills[f].position : f \in FillsOf(i)}
                = Backfilled(history[i].v, history[i].start)
          /\ \A f \in FillsOf(i) :
                /\ encoder.fills[f].position >= history[i].start
                /\ encoder.fills[f].chunks > history[i].start

\* tests::writes_complex_struct: a struct holding a sequence of three structs.
\* The three inner structs are backfilled first, then the sequence, then the
\* outer struct, each into the chunk it reserved and each once.
C21_Witness ==
    /\ Len(history) = 1
    /\ history[1].v = TestStructBig
    /\ history[1].err = "Ok"
    /\ [f \in 1..Len(encoder.fills) |-> encoder.fills[f].position] = <<3, 7, 11, 1, 0>>
    /\ \A f \in 1..Len(encoder.fills) : encoder.fills[f].before = 0
    /\ Len(encoder.output) = 17
    /\ encoder.output[1] = <<54, 0, 0, 0>>
    /\ encoder.output[2] = <<43, 0, 0, 0>>
    /\ encoder.output[4] = <<8, 0, 0, 0>>
    /\ encoder.output[8] = <<10, 0, 0, 0>>
    /\ encoder.output[12] = <<9, 0, 0, 0>>

====
